---- MODULE Spec2Model ----
(***************************************************************************)
(* Model of the Prometheus metrics service of moleculer-go/metrics:        *)
(* PrometheusService() with its startup hook (Started / createMetrics),    *)
(* the topology handler updateCommonValues, the trace handler              *)
(* traceSpanFinished and the scrape of the exposition endpoint.            *)
(***************************************************************************)
EXTENDS Integers, Sequences, FiniteSets, TLC

(* ------------------------------ bounds --------------------------------- *)

\* number of topology events (each one invocation of updateCommonValues)
MaxInvocations == 2
\* number of metrics.trace.span.finish events (invocations of traceSpanFinished)
MaxTraces == 2
\* number of scrapes of the exposition endpoint
MaxScrapes == 1
\* number of fan-out sub-queries that fail or time out
MaxFailures == 1

(* ------------------- the service settings (schema) --------------------- *)

\* Settings["metrics"] of the schema: metric name -> params
Metrics ==
  [ moleculer_nodes_total             |-> [type |-> "Gauge",     hasLabels |-> FALSE, hasBuckets |-> FALSE],
    moleculer_services_total          |-> [type |-> "Gauge",     hasLabels |-> FALSE, hasBuckets |-> FALSE],
    moleculer_actions_total           |-> [type |-> "Gauge",     hasLabels |-> FALSE, hasBuckets |-> FALSE],
    moleculer_events_total            |-> [type |-> "Gauge",     hasLabels |-> FALSE, hasBuckets |-> FALSE],
    moleculer_nodes                   |-> [type |-> "Gauge",     hasLabels |-> TRUE,  hasBuckets |-> FALSE],
    moleculer_action_endpoints_total  |-> [type |-> "Gauge",     hasLabels |-> TRUE,  hasBuckets |-> FALSE],
    moleculer_service_endpoints_total |-> [type |-> "Gauge",     hasLabels |-> TRUE,  hasBuckets |-> FALSE],
    moleculer_event_endpoints_total   |-> [type |-> "Gauge",     hasLabels |-> TRUE,  hasBuckets |-> FALSE],
    moleculer_all_req_total           |-> [type |-> "Counter",   hasLabels |-> FALSE, hasBuckets |-> FALSE],
    moleculer_req_total               |-> [type |-> "Counter",   hasLabels |-> TRUE,  hasBuckets |-> FALSE],
    moleculer_all_req_errors_total    |-> [type |-> "Counter",   hasLabels |-> FALSE, hasBuckets |-> FALSE],
    moleculer_req_errors_total        |-> [type |-> "Counter",   hasLabels |-> TRUE,  hasBuckets |-> FALSE],
    moleculer_all_req_duration_ms     |-> [type |-> "Histogram", hasLabels |-> FALSE, hasBuckets |-> TRUE],
    moleculer_req_duration_ms         |-> [type |-> "Histogram", hasLabels |-> TRUE,  hasBuckets |-> FALSE] ]

MetricNames == DOMAIN Metrics

\* The bucket order of the metrics map. `range` over a Go map starts at a
\* random position of this order and wraps around.
MetricOrder ==
  << "moleculer_nodes_total", "moleculer_services_total", "moleculer_actions_total",
     "moleculer_events_total", "moleculer_nodes", "moleculer_action_endpoints_total",
     "moleculer_service_endpoints_total", "moleculer_event_endpoints_total",
     "moleculer_all_req_total", "moleculer_req_total", "moleculer_all_req_errors_total",
     "moleculer_req_errors_total", "moleculer_all_req_duration_ms",
     "moleculer_req_duration_ms" >>

\* the shapes of service.Settings the startup hook can be given: the
\* schema's own, no "metrics" entry, a "metrics" entry that is no map, and
\* the schema's with the type of one metric not among the three known
SettingsKinds == {"valid", "missing", "mistyped", "unknownType"}

\* the metric whose type is unknown in the settings of kind "unknownType"
UnknownTypeMetric == "moleculer_req_errors_total"

\* settings["metrics"] for the kinds of settings that carry a map
MetricsOf(kind) ==
  IF kind = "unknownType"
    THEN [Metrics EXCEPT ![UnknownTypeMetric].type = "Summary"]
    ELSE Metrics

\* collectorFromType: the collector built for params; "nil" for an unknown type
collectorFromType(params) ==
  CASE params.type = "Gauge" ->
         IF params.hasLabels THEN "GaugeVec" ELSE "Gauge"
    [] params.type = "Counter" ->
         IF params.hasLabels THEN "CounterVec" ELSE "Counter"
    [] params.type = "Histogram" ->
         IF params.hasLabels THEN "HistogramVec" ELSE "Histogram"
    [] OTHER -> "nil"

(* ------------------------------ the cluster ---------------------------- *)

LocalNode == "n1"
NodeOrder == << "n1", "n2" >>
Nodes == {NodeOrder[i] : i \in 1..Len(NodeOrder)}
ServiceOrder == << "music" >>
Services == {ServiceOrder[i] : i \in 1..Len(ServiceOrder)}
\* the actions and the event subscriptions a service publishes
ActionOrder == << "music.start" >>
ActionService == [ a \in {"music.start"} |-> "music" ]
EventOrder == << "rings" >>
EventService == [ e \in {"rings"} |-> "music" ]

Queries == {"nodes", "services", "actions", "events"}


(* ------------------------------- state --------------------------------- *)

VARIABLES
  settings,        \* the shape of service.Settings given to Started
  startPc,         \* position of the startup hook (Started and createMetrics)
  rangeStart,      \* position of MetricOrder where the range loop started
  collectors,      \* the registry map: metric name -> collector
  registered,      \* names registered with the exposition handler (MustRegister)
  metricsCreated,  \* the flag read by updateCommonValues
  sendCount,       \* values sent on metricsCreatedChan so far
  updateMutex,     \* 0 when free, else the invocation that holds it
  nInv,            \* topology events delivered so far
  pc,              \* position of each invocation of updateCommonValues
  results,         \* per invocation: the sub-query results gathered so far
  failed,          \* per invocation: the sub-queries that failed or timed out
  nFailed,         \* sub-queries that failed or timed out so far
  recvCount,       \* per invocation: values received from metricsCreatedChan
  idx,             \* per invocation: index of the running for loop
  preGauges,       \* the gauges as they were when the mutex holder gathered
  gaugeVal,        \* the four scalar gauges
  gaugeVec,        \* the four labelled gauges: label tuple -> value
  connected,       \* nodes currently reachable
  known,           \* nodes the registry has ever seen
  published,       \* <<service, node>> endpoints currently published
  honoursOnlyAvailable, \* whether $node.list drops unreachable nodes
  nTrace,          \* trace events delivered so far
  tpc,             \* position of each invocation of traceSpanFinished
  tpayload,        \* per invocation: the event payload
  counters,        \* the trace counters and histograms
  nScrapes,        \* scrapes served so far
  scraped,         \* what the last scrape returned
  factoryIn,       \* params of a call of collectorFromType on its own
  factoryOut       \* the collector that call returned

startVars   == << settings, startPc, rangeStart, collectors, registered,
                 metricsCreated, sendCount >>
topoVars    == << updateMutex, nInv, pc, results, failed, nFailed, recvCount, idx,
                 preGauges >>
gaugeVars   == << gaugeVal, gaugeVec >>
clusterVars == << connected, known, published, honoursOnlyAvailable >>
traceVars   == << nTrace, tpc, tpayload, counters >>
scrapeVars  == << nScrapes, scraped >>
factoryVars == << factoryIn, factoryOut >>
vars == << startVars, topoVars, gaugeVars, clusterVars, traceVars, scrapeVars,
          factoryVars >>

Invocations == 1..MaxInvocations
Traces == 1..MaxTraces

TotalNames == { "moleculer_nodes_total", "moleculer_services_total",
                "moleculer_actions_total", "moleculer_events_total" }
VecNames == { "moleculer_nodes", "moleculer_service_endpoints_total",
              "moleculer_action_endpoints_total", "moleculer_event_endpoints_total" }

\* the empty label-tuple map of a freshly created vector collector
NoTuples == [ t \in {} |-> 0 ]

\* variant: the family is reset before the tuple is set
SetTupleResets(vec, labels, v) == [ t \in {labels} |-> v ]
\* variant: the value is added to the tuple's slot (Add in place of Set)
SetTupleAdds(vec, labels, v) == [ t \in DOMAIN vec \cup {labels} |->
                                   IF t = labels
                                     THEN (IF t \in DOMAIN vec THEN vec[t] ELSE 0) + v
                                     ELSE vec[t] ]
\* With(labels).Set(v) / first use of a tuple creates its slot
SetTuple(vec, labels, v) == [ t \in DOMAIN vec \cup {labels} |->
                               IF t = labels THEN v ELSE vec[t] ]

(* --------------------------- startup hook ------------------------------ *)

\* every configured collector is in the registry map and registered
RegistryComplete == DOMAIN collectors = MetricNames /\ registered = MetricNames

\* the name the range loop visits next
NextMetric ==
  MetricOrder[((rangeStart - 1 + Cardinality(DOMAIN collectors)) % Len(MetricOrder)) + 1]

\* variant: the loop is left one entry short
RangeDoneOneShort == Cardinality(DOMAIN collectors) >= Len(MetricOrder) - 1
\* variant: the loop is left after its first iteration
RangeDoneEarly == Cardinality(DOMAIN collectors) >= 1
\* the range loop has visited every entry of the metrics map
RangeDone == Cardinality(DOMAIN collectors) = Len(MetricOrder)

\* variant: the early returns set the flag as well
CreateMetricsEnterFlagsEarlyReturn ==
  /\ startPc = "init"
  /\ IF settings \in {"valid", "unknownType"}
       THEN /\ startPc' = "range"
            /\ \E s \in 1..Len(MetricOrder) : rangeStart' = s
            /\ UNCHANGED metricsCreated
       ELSE /\ startPc' = "listen"
            /\ metricsCreated' = TRUE
            /\ UNCHANGED rangeStart
  /\ UNCHANGED << settings, collectors, registered, sendCount >>
  /\ UNCHANGED << topoVars, gaugeVars, clusterVars, traceVars, scrapeVars, factoryVars >>
\* createMetrics, entry: the two early returns, else the loop begins
CreateMetricsEnter ==
  /\ startPc = "init"
  /\ IF settings \in {"valid", "unknownType"}
       THEN /\ startPc' = "range"
            /\ \E s \in 1..Len(MetricOrder) : rangeStart' = s
       ELSE /\ startPc' = "listen"
            /\ UNCHANGED rangeStart
  /\ UNCHANGED << settings, collectors, registered, metricsCreated, sendCount >>
  /\ UNCHANGED << topoVars, gaugeVars, clusterVars, traceVars, scrapeVars, factoryVars >>

\* the collector the loop builds for the name it visits next
NextCollector == collectorFromType(MetricsOf(settings)[NextMetric])

\* the registry map after `collectors[metricName] = collector`
Inserted(name, collector) ==
  [ n \in DOMAIN collectors \cup {name} |->
      IF n = name THEN collector ELSE collectors[n] ]

\* one iteration of the loop: build, insert into the map, MustRegister
CreateMetricsStep ==
  /\ startPc = "range"
  /\ ~RangeDone
  /\ NextCollector # "nil"
  /\ collectors' = Inserted(NextMetric, NextCollector)
  /\ registered' = registered \cup {NextMetric}
  /\ UNCHANGED << settings, startPc, rangeStart, metricsCreated, sendCount >>
  /\ UNCHANGED << topoVars, gaugeVars, clusterVars, traceVars, scrapeVars, factoryVars >>

\* the iteration for a metric of unknown type: collectorFromType returns
\* nil, the nil is stored under the name, and MustRegister(nil) panics
CreateMetricsNil ==
  /\ startPc = "range"
  /\ ~RangeDone
  /\ NextCollector = "nil"
  /\ collectors' = Inserted(NextMetric, NextCollector)
  /\ startPc' = "panicked"
  /\ UNCHANGED << settings, rangeStart, registered, metricsCreated, sendCount >>
  /\ UNCHANGED << topoVars, gaugeVars, clusterVars, traceVars, scrapeVars, factoryVars >>

\* variant: the flag is set inside the loop, after the first insertion
CreateMetricsFlagInLoop ==
  /\ startPc = "range"
  /\ Cardinality(DOMAIN collectors) >= 1
  /\ ~metricsCreated
  /\ metricsCreated' = TRUE
  /\ UNCHANGED << settings, startPc, rangeStart, collectors, registered, sendCount >>
  /\ UNCHANGED << topoVars, gaugeVars, clusterVars, traceVars, scrapeVars, factoryVars >>
\* metricsCreated = true, after the loop
CreateMetricsFlag ==
  /\ startPc = "range"
  /\ RangeDone
  /\ metricsCreated' = TRUE
  /\ startPc' = "send"
  /\ rangeStart' = 0
  /\ UNCHANGED << settings, collectors, registered, sendCount >>
  /\ UNCHANGED << topoVars, gaugeVars, clusterVars, traceVars, scrapeVars, factoryVars >>

\* http.Handle and http.ListenAndServe
Listen ==
  /\ startPc = "listen"
  /\ startPc' = "serving"
  /\ UNCHANGED << settings, rangeStart, collectors, registered, metricsCreated, sendCount >>
  /\ UNCHANGED << topoVars, gaugeVars, clusterVars, traceVars, scrapeVars, factoryVars >>


(* ------------------- the cluster and its introspection ----------------- *)

\* the nodes that publish service s, in registry order
EndpointsOf(s) == SelectSeq(NodeOrder, LAMBDA n : << s, n >> \in published)

\* variant: the registry lists every node it knows, available or not
NodeListUnfiltered ==
  LET ids == SelectSeq(NodeOrder, LAMBDA n : n \in known)
  IN [ i \in 1..Len(ids) |->
         [ id |-> ids[i], available |-> ids[i] \in connected,
           client |-> [ type |-> "moleculer-go", version |-> "0.1", langVersion |-> "go" ] ] ]
\* $node.list {withServices: false, onlyAvailable: true}
NodeList ==
  LET shown == IF honoursOnlyAvailable THEN connected ELSE known
      ids == SelectSeq(NodeOrder, LAMBDA n : n \in shown)
  IN [ i \in 1..Len(ids) |->
         [ id |-> ids[i], available |-> ids[i] \in connected,
           client |-> [ type |-> "moleculer-go", version |-> "0.1", langVersion |-> "go" ] ] ]

\* $node.services {withActions: false, withEndpoints: true, skipInternal: true}
ServiceList ==
  LET names == SelectSeq(ServiceOrder, LAMBDA s : Len(EndpointsOf(s)) > 0)
  IN [ i \in 1..Len(names) |->
         [ name |-> names[i], version |-> "1", endpoints |-> EndpointsOf(names[i]) ] ]

\* $node.actions {withEndpoints: true, skipInternal: true, onlyAvailable: true}
ActionList ==
  LET names == SelectSeq(ActionOrder, LAMBDA a : Len(EndpointsOf(ActionService[a])) > 0)
  IN [ i \in 1..Len(names) |->
         [ name |-> names[i], endpoints |-> EndpointsOf(ActionService[names[i]]) ] ]

\* $node.events {withEndpoints: true, skipInternal: true, onlyAvailable: true}
EventList ==
  LET names == SelectSeq(EventOrder, LAMBDA e : Len(EndpointsOf(EventService[e])) > 0)
  IN [ i \in 1..Len(names) |->
         [ name |-> names[i], group |-> EventService[names[i]],
           endpoints |-> EndpointsOf(EventService[names[i]]) ] ]

\* what sub-query q of the fan-out answers now
QueryResult(q) ==
  CASE q = "nodes"    -> NodeList
    [] q = "services" -> ServiceList
    [] q = "actions"  -> ActionList
    [] q = "events"   -> EventList

\* a topology event is delivered: one more invocation of updateCommonValues
Deliver ==
  /\ nInv < MaxInvocations
  /\ nInv' = nInv + 1
  /\ pc' = [pc EXCEPT ![nInv + 1] = "lock"]
  /\ UNCHANGED << updateMutex, results, failed, nFailed, recvCount, idx, preGauges >>

\* $node.connected
NodeConnected(n) ==
  /\ n \notin connected
  /\ connected' = connected \cup {n}
  /\ known' = known \cup {n}
  /\ Deliver
  /\ UNCHANGED << published, honoursOnlyAvailable >>
  /\ UNCHANGED << startVars, gaugeVars, traceVars, scrapeVars, factoryVars >>

\* $node.disconnected
NodeDisconnected(n) ==
  /\ n \in connected
  /\ n # LocalNode
  /\ connected' = connected \ {n}
  /\ published' = { e \in published : e[2] # n }
  /\ Deliver
  /\ UNCHANGED << known, honoursOnlyAvailable >>
  /\ UNCHANGED << startVars, gaugeVars, traceVars, scrapeVars, factoryVars >>

\* $registry.service.added
ServiceAdded(s, n) ==
  /\ n \in connected
  /\ << s, n >> \notin published
  /\ published' = published \cup { << s, n >> }
  /\ Deliver
  /\ UNCHANGED << connected, known, honoursOnlyAvailable >>
  /\ UNCHANGED << startVars, gaugeVars, traceVars, scrapeVars, factoryVars >>

\* $registry.service.removed
ServiceRemoved(s, n) ==
  /\ << s, n >> \in published
  /\ published' = published \ { << s, n >> }
  /\ Deliver
  /\ UNCHANGED << connected, known, honoursOnlyAvailable >>
  /\ UNCHANGED << startVars, gaugeVars, traceVars, scrapeVars, factoryVars >>


(* --------------------- updateCommonValues (topology) ------------------- *)

\* the records invocation h holds for sub-query q (MapArray of the result)
Res(h, q) == IF q \in DOMAIN results[h] THEN results[h][q] ELSE << >>

\* variant: Lock does not wait for the holder
MutexIgnored == TRUE
\* updateMutex can be taken
MutexFree == updateMutex = 0

\* The values the read of metricsCreated at line 115 can return. The flag is
\* written by the goroutine of Started and read by the handlers with no
\* synchronisation but the channel: until the send at line 61 has completed,
\* a read that follows the write at line 60 may still return the old value.
ReadMetricsCreated ==
  IF startPc = "send" THEN BOOLEAN ELSE { metricsCreated }

\* variants: the handler never waits at the gate / always waits at it
MustWaitNever(seen) == FALSE
MustWaitAlways(seen) == TRUE
\* the `if !metricsCreated` test on the value read
MustWait(seen) == ~seen

\* variant: the handler goes on as soon as the node list is in
GatherFirst(h) == "nodes" \in DOMAIN results[h]
\* `results := <-context.MCall(...)` can return: all four results are in
GatherComplete(h) == DOMAIN results[h] = Queries

\* variant: the handler goes on without taking the mutex
LockSkipped(h) ==
  /\ pc[h] = "lock"
  /\ pc' = [pc EXCEPT ![h] = "check"]
  /\ UNCHANGED << updateMutex, nInv, results, failed, nFailed, recvCount, idx, preGauges >>
  /\ UNCHANGED << startVars, gaugeVars, clusterVars, traceVars, scrapeVars, factoryVars >>
\* updateMutex.Lock()
Lock(h) ==
  /\ pc[h] = "lock"
  /\ MutexFree
  /\ updateMutex' = h
  /\ pc' = [pc EXCEPT ![h] = "check"]
  /\ UNCHANGED << nInv, results, failed, nFailed, recvCount, idx, preGauges >>
  /\ UNCHANGED << startVars, gaugeVars, clusterVars, traceVars, scrapeVars, factoryVars >>

\* if !metricsCreated { wait } else go on to the fan-out
CheckCreated(h) ==
  /\ pc[h] = "check"
  /\ \E seen \in ReadMetricsCreated :
       pc' = [pc EXCEPT ![h] = IF MustWait(seen) THEN "wait" ELSE "gather"]
  /\ UNCHANGED << updateMutex, nInv, results, failed, nFailed, recvCount, idx, preGauges >>
  /\ UNCHANGED << startVars, gaugeVars, clusterVars, traceVars, scrapeVars, factoryVars >>

\* the rendezvous on the unbuffered metricsCreatedChan:
\* `metricsCreatedChan <- metricsCreated` in createMetrics meets
\* `<-metricsCreatedChan` in invocation h; createMetrics returns to Started
GateReceive(h) ==
  /\ pc[h] = "wait"
  /\ startPc = "send"
  /\ sendCount' = sendCount + 1
  /\ recvCount' = [recvCount EXCEPT ![h] = @ + 1]
  /\ startPc' = "listen"
  /\ pc' = [pc EXCEPT ![h] = "gather"]
  /\ UNCHANGED << settings, rangeStart, collectors, registered, metricsCreated >>
  /\ UNCHANGED << updateMutex, nInv, results, failed, nFailed, idx, preGauges >>
  /\ UNCHANGED << gaugeVars, clusterVars, traceVars, scrapeVars, factoryVars >>

\* one sub-query of the fan-out answers, or fails / times out: MCall then
\* holds an error payload for it, whose MapArray() is empty
SubQueryReturn(h, q) ==
  /\ pc[h] = "gather"
  /\ q \notin DOMAIN results[h]
  /\ \E ok \in (IF nFailed < MaxFailures THEN BOOLEAN ELSE {TRUE}) :
       /\ results' = [results EXCEPT ![h] =
            [ x \in DOMAIN results[h] \cup {q} |->
                IF x = q THEN (IF ok THEN QueryResult(q) ELSE << >>)
                         ELSE results[h][x] ] ]
       /\ failed' = [failed EXCEPT ![h] = IF ok THEN @ ELSE @ \cup {q}]
       /\ nFailed' = IF ok THEN nFailed ELSE nFailed + 1
  /\ UNCHANGED << updateMutex, nInv, pc, recvCount, idx, preGauges >>
  /\ UNCHANGED << startVars, gaugeVars, clusterVars, traceVars, scrapeVars, factoryVars >>

\* list lengths of the snapshot invocation h holds
SnapshotTotals(h) ==
  << Len(Res(h, "nodes")), Len(Res(h, "services")),
     Len(Res(h, "actions")), Len(Res(h, "events")) >>

\* the fan-out returns the gathered map to the handler
MCallReturn(h) ==
  /\ pc[h] = "gather"
  /\ GatherComplete(h)
  /\ pc' = [pc EXCEPT ![h] = "nodesTotal"]
  /\ preGauges' = [ val |-> gaugeVal, vec |-> gaugeVec ]
  /\ UNCHANGED << updateMutex, nInv, results, failed, nFailed, recvCount, idx >>
  /\ UNCHANGED << startVars, gaugeVars, clusterVars, traceVars, scrapeVars, factoryVars >>

\* the scalar gauge and the labelled gauge fed by sub-query q
TotalGauge(q) ==
  CASE q = "nodes"    -> "moleculer_nodes_total"
    [] q = "services" -> "moleculer_services_total"
    [] q = "actions"  -> "moleculer_actions_total"
    [] q = "events"   -> "moleculer_events_total"
VecGauge(q) ==
  CASE q = "nodes"    -> "moleculer_nodes"
    [] q = "services" -> "moleculer_service_endpoints_total"
    [] q = "actions"  -> "moleculer_action_endpoints_total"
    [] q = "events"   -> "moleculer_event_endpoints_total"

\* the position after the for loop over q's records
AfterLoop(q) ==
  CASE q = "nodes"    -> "servicesTotal"
    [] q = "services" -> "actionsTotal"
    [] q = "actions"  -> "eventsTotal"
    [] q = "events"   -> "unlock"
TotalPc(q) ==
  CASE q = "nodes"    -> "nodesTotal"
    [] q = "services" -> "servicesTotal"
    [] q = "actions"  -> "actionsTotal"
    [] q = "events"   -> "eventsTotal"

\* variant: the availability of the record is not looked at
NodeValueAlwaysOne(node) == 1
\* the value set on moleculer_nodes for a node record
NodeValue(node) == IF node.available THEN 1 ELSE 0

\* the label tuple of a record of q's list, in labelNames order
RecordLabels(q, item) ==
  CASE q = "nodes"    -> << item.id, item.client.type, item.client.version,
                            item.client.langVersion >>
    [] q = "services" -> << item.name, item.version >>
    [] q = "actions"  -> << item.name >>
    [] q = "events"   -> << item.name, item.group >>

\* the value set for a record of q's list
RecordValue(q, item) ==
  IF q = "nodes" THEN NodeValue(item) ELSE Len(item.endpoints)

\* xTotal.Set(float64(len(x)))
SetTotal(h, q) ==
  /\ pc[h] = TotalPc(q)
  /\ gaugeVal' = [gaugeVal EXCEPT ![TotalGauge(q)] = Len(Res(h, q))]
  /\ IF Len(Res(h, q)) > 0
       THEN /\ pc' = [pc EXCEPT ![h] = q]
            /\ idx' = [idx EXCEPT ![h] = 1]
       ELSE /\ pc' = [pc EXCEPT ![h] = AfterLoop(q)]
            /\ idx' = [idx EXCEPT ![h] = 0]
  /\ UNCHANGED << updateMutex, nInv, results, failed, nFailed, recvCount, preGauges >>
  /\ UNCHANGED << gaugeVec >>
  /\ UNCHANGED << startVars, clusterVars, traceVars, scrapeVars, factoryVars >>

\* one iteration of `for _, item := range x { xCollector.With(labels).Set(v) }`
SetRecord(h, q) ==
  /\ pc[h] = q
  /\ LET item == Res(h, q)[idx[h]]
     IN gaugeVec' = [gaugeVec EXCEPT ![VecGauge(q)] =
                       SetTuple(@, RecordLabels(q, item), RecordValue(q, item))]
  /\ IF idx[h] < Len(Res(h, q))
       THEN /\ idx' = [idx EXCEPT ![h] = @ + 1]
            /\ UNCHANGED pc
       ELSE /\ idx' = [idx EXCEPT ![h] = 0]
            /\ pc' = [pc EXCEPT ![h] = AfterLoop(q)]
  /\ UNCHANGED << updateMutex, nInv, results, failed, nFailed, recvCount, preGauges >>
  /\ UNCHANGED << gaugeVal >>
  /\ UNCHANGED << startVars, clusterVars, traceVars, scrapeVars, factoryVars >>

\* variant: an explicit Unlock at the end of the body, skipped by an
\* invocation that held a failed sub-query result
UnlockSkippedOnFailure(h) ==
  /\ pc[h] = "unlock"
  /\ updateMutex' = IF failed[h] = {} THEN 0 ELSE updateMutex
  /\ pc' = [pc EXCEPT ![h] = "done"]
  /\ results' = [results EXCEPT ![h] = << >>]
  /\ failed' = [failed EXCEPT ![h] = {}]
  /\ preGauges' = << >>
  /\ UNCHANGED << nInv, nFailed, recvCount, idx >>
  /\ UNCHANGED << startVars, gaugeVars, clusterVars, traceVars, scrapeVars, factoryVars >>
\* the deferred updateMutex.Unlock(); the handler returns
Unlock(h) ==
  /\ pc[h] = "unlock"
  /\ updateMutex' = 0
  /\ pc' = [pc EXCEPT ![h] = "done"]
  /\ results' = [results EXCEPT ![h] = << >>]
  /\ failed' = [failed EXCEPT ![h] = {}]
  /\ preGauges' = << >>
  /\ UNCHANGED << nInv, nFailed, recvCount, idx >>
  /\ UNCHANGED << startVars, gaugeVars, clusterVars, traceVars, scrapeVars, factoryVars >>


(* ------------------------- traceSpanFinished --------------------------- *)

\* the metrics.trace.span.finish payloads the model delivers
\* (a call of music.start that succeeds, a call of music.end that throws)
TracePayloads ==
  { [ service |-> "music", action |-> "music.start", nodeID |-> "n1",
      duration |-> 2, hasError |-> FALSE, message |-> "" ],
    [ service |-> "music", action |-> "music.end", nodeID |-> "n1",
      duration |-> 1, hasError |-> TRUE, message |-> "boom" ] }

\* the collector each position of the handler looks up in the registry map
TraceMetric(p) ==
  CASE p = "allReq" -> "moleculer_all_req_total"
    [] p = "req"    -> "moleculer_req_total"
    [] p = "allDur" -> "moleculer_all_req_duration_ms"
    [] p = "dur"    -> "moleculer_req_duration_ms"
    [] p = "allErr" -> "moleculer_all_req_errors_total"
    [] p = "err"    -> "moleculer_req_errors_total"
TracePcs == { "allReq", "req", "allDur", "dur", "allErr", "err" }

\* variant: the per-tuple request counter is left out
TraceAfterSkipsReq(p, e) ==
  CASE p = "allReq" -> "allDur"
    [] p = "req"    -> "allDur"
    [] p = "allDur" -> "dur"
    [] p = "dur"    -> IF e.hasError THEN "allErr" ELSE "done"
    [] p = "allErr" -> "err"
    [] p = "err"    -> "done"
\* the position after p for payload e
TraceAfter(p, e) ==
  CASE p = "allReq" -> "req"
    [] p = "req"    -> "allDur"
    [] p = "allDur" -> "dur"
    [] p = "dur"    -> IF e.hasError THEN "allErr" ELSE "done"
    [] p = "allErr" -> "err"
    [] p = "err"    -> "done"

ReqLabels(e) == << e.action, e.service, e.nodeID >>
ErrLabels(e) == << e.action, e.service, e.nodeID, e.message >>

\* variant: the slot is created anew on every use, the count before is lost
IncTupleLosesCount(vec, labels) == SetTuple(vec, labels, 1)
\* Counter.Inc on a label tuple; first use creates the zeroed slot
IncTuple(vec, labels) ==
  SetTuple(vec, labels, (IF labels \in DOMAIN vec THEN vec[labels] ELSE 0) + 1)

\* Histogram.Observe
Observe(hist, d) == [ count |-> hist.count + 1, sum |-> hist.sum + d ]
ObserveTuple(vec, labels, d) ==
  SetTuple(vec, labels,
           Observe(IF labels \in DOMAIN vec THEN vec[labels] ELSE [count |-> 0, sum |-> 0], d))

\* `collectors[name]` yields a collector (not the nil of a missing name or
\* of a stored nil)
Found(name) == name \in DOMAIN collectors /\ collectors[name] # "nil"

\* the broker delivers a metrics.trace.span.finish event
TraceEvent(e) ==
  /\ nTrace < MaxTraces
  /\ nTrace' = nTrace + 1
  /\ tpc' = [tpc EXCEPT ![nTrace + 1] = "allReq"]
  /\ tpayload' = [tpayload EXCEPT ![nTrace + 1] = e]
  /\ UNCHANGED counters
  /\ UNCHANGED << startVars, topoVars, gaugeVars, clusterVars, scrapeVars, factoryVars >>

\* variant: the per-action request count is also written to the
\* moleculer_action_endpoints_total gauge
TraceStepSetsActionGauge(t) ==
  /\ tpc[t] \in TracePcs
  /\ Found(TraceMetric(tpc[t]))
  /\ LET p == tpc[t]
         e == tpayload[t]
     IN /\ counters' =
             CASE p = "allReq" -> [counters EXCEPT !.allReq = @ + 1]
               [] p = "req"    -> [counters EXCEPT !.req = IncTuple(@, ReqLabels(e))]
               [] p = "allDur" -> [counters EXCEPT !.allDur = Observe(@, e.duration)]
               [] p = "dur"    -> [counters EXCEPT !.dur = ObserveTuple(@, ReqLabels(e), e.duration)]
               [] p = "allErr" -> [counters EXCEPT !.allErr = @ + 1]
               [] p = "err"    -> [counters EXCEPT !.err = IncTuple(@, ErrLabels(e))]
        /\ gaugeVec' = IF p = "req"
                         THEN [gaugeVec EXCEPT !["moleculer_action_endpoints_total"] =
                                 IncTuple(@, << e.action >>)]
                         ELSE gaugeVec
        /\ tpc' = [tpc EXCEPT ![t] = TraceAfter(p, e)]
  /\ UNCHANGED << nTrace, tpayload, gaugeVal >>
  /\ UNCHANGED << startVars, topoVars, clusterVars, scrapeVars, factoryVars >>
\* one lookup `collectors[name].(T)` that finds the collector, and its update
TraceStep(t) ==
  /\ tpc[t] \in TracePcs
  /\ Found(TraceMetric(tpc[t]))
  /\ LET p == tpc[t]
         e == tpayload[t]
     IN /\ counters' =
             CASE p = "allReq" -> [counters EXCEPT !.allReq = @ + 1]
               [] p = "req"    -> [counters EXCEPT !.req = IncTuple(@, ReqLabels(e))]
               [] p = "allDur" -> [counters EXCEPT !.allDur = Observe(@, e.duration)]
               [] p = "dur"    -> [counters EXCEPT !.dur = ObserveTuple(@, ReqLabels(e), e.duration)]
               [] p = "allErr" -> [counters EXCEPT !.allErr = @ + 1]
               [] p = "err"    -> [counters EXCEPT !.err = IncTuple(@, ErrLabels(e))]
        /\ tpc' = [tpc EXCEPT ![t] = TraceAfter(p, e)]
  /\ UNCHANGED << nTrace, tpayload >>
  /\ UNCHANGED << startVars, topoVars, gaugeVars, clusterVars, scrapeVars, factoryVars >>

\* a lookup of a name createMetrics has not inserted yet yields a nil
\* interface, and the type assertion on it panics
TracePanic(t) ==
  /\ tpc[t] \in TracePcs
  /\ ~Found(TraceMetric(tpc[t]))
  /\ tpc' = [tpc EXCEPT ![t] = "panicked"]
  /\ UNCHANGED << nTrace, tpayload, counters >>
  /\ UNCHANGED << startVars, topoVars, gaugeVars, clusterVars, scrapeVars, factoryVars >>

\* a metrics.trace.span.finish payload without service, action, nodeID and
\* duration, as lines 65-68 read it: payload.Get of a missing field is an
\* empty payload, whose String() and Float() give the values below
MalformedPayloads ==
  { [ service |-> "", action |-> "", nodeID |-> "", duration |-> 0,
      hasError |-> FALSE, message |-> "" ] }

\* the other outcome of lines 65-68 on a payload without the fields: the
\* conversion of the missing value panics before any collector is touched
TraceReadPanic(t) ==
  /\ tpc[t] = "allReq"
  /\ tpayload[t] \in MalformedPayloads
  /\ tpc' = [tpc EXCEPT ![t] = "panicked"]
  /\ UNCHANGED << nTrace, tpayload, counters >>
  /\ UNCHANGED << startVars, topoVars, gaugeVars, clusterVars, scrapeVars, factoryVars >>

(* ------------------------- exposition endpoint ------------------------- *)

\* the four scalar gauges as a tuple, in handler order
TotalsOf(val) ==
  << val["moleculer_nodes_total"], val["moleculer_services_total"],
     val["moleculer_actions_total"], val["moleculer_events_total"] >>

\* positions of updateCommonValues between the gather and the last Set
WritePcs == { "nodesTotal", "nodes", "servicesTotal", "services",
              "actionsTotal", "actions", "eventsTotal", "events" }

\* the snapshots the scalar gauges can stem from right now: the one last
\* applied and, while an invocation is setting gauges, the one it applies
LiveSnapshots ==
  IF \E h \in Invocations : pc[h] \in WritePcs \cup {"unlock"}
    THEN { TotalsOf(preGauges.val) } \cup
         { SnapshotTotals(h) : h \in { x \in Invocations : pc[x] \in WritePcs \cup {"unlock"} } }
    ELSE { TotalsOf(gaugeVal) }

\* GET on the endpoint, served once ListenAndServe runs: promhttp's handler
\* reads the registered collectors and never takes updateMutex.
\* scraped.val is the response; scraped.snapshots records LiveSnapshots.
Scrape ==
  /\ startPc = "serving"
  /\ nScrapes < MaxScrapes
  /\ nScrapes' = nScrapes + 1
  /\ scraped' = [ val |-> [ n \in TotalNames \cap registered |-> gaugeVal[n] ],
                  snapshots |-> LiveSnapshots ]
  /\ UNCHANGED << startVars, topoVars, gaugeVars, clusterVars, traceVars, factoryVars >>

(* --------------------------- collectorFromType ------------------------- *)

\* a params entry: present with its value, or not there (the type
\* assertion on it then fails)
Entry(v) == [ present |-> TRUE, value |-> v ]
Absent == [ present |-> FALSE, value |-> << >> ]

\* params maps a call of collectorFromType can be given: the type, the
\* labelNames entry ([]string or none) and the buckets entry ([]float64 or
\* none)
FactoryInputs ==
  [ type : {"Gauge", "Counter", "Histogram", "Summary"},
    labelNames : {Absent, Entry(<< >>), Entry(<< "action" >>),
                  Entry(<< "action", "service" >>)},
    buckets : {Absent, Entry(<< 1 >>), Entry(<< 1, 10 >>)} ]

\* the label-partitioned kinds of collector
VecKinds == {"GaugeVec", "CounterVec", "HistogramVec"}

\* no call of collectorFromType made yet
NotBuilt == [ kind |-> "none", labelNames |-> Absent, buckets |-> Absent ]

\* collectorFromType with what it passes to the constructor: the kind
\* ("nil" for an unknown type), the label names handed to a New...Vec and,
\* for a histogram, opts.Buckets (left unset, the client library takes its
\* default buckets)
BuildCollector(params) ==
  LET hasLabels  == params.labelNames.present
      hasBuckets == params.buckets.present
      kind == collectorFromType([ type |-> params.type, hasLabels |-> hasLabels,
                                  hasBuckets |-> hasBuckets ])
  IN [ kind |-> kind,
       labelNames |-> IF kind # "nil" /\ hasLabels THEN params.labelNames ELSE Absent,
       buckets |-> IF params.type = "Histogram" /\ hasBuckets
                     THEN params.buckets ELSE Absent ]

\* no params: no call of collectorFromType on its own is under way
NoParams == [ type |-> "none", labelNames |-> Absent, buckets |-> Absent ]

\* one call collectorFromType(metricName, params, logger)
Build ==
  /\ factoryIn # NoParams
  /\ factoryOut = NotBuilt
  /\ factoryOut' = BuildCollector(factoryIn)
  /\ UNCHANGED factoryIn
  /\ UNCHANGED << startVars, topoVars, gaugeVars, clusterVars, traceVars, scrapeVars >>

(* ---------------------------- specification ---------------------------- *)

ServiceInit ==
  /\ settings \in SettingsKinds
  /\ startPc = "init"
  /\ rangeStart = 0
  /\ collectors = << >>
  /\ registered = {}
  /\ metricsCreated = FALSE
  /\ sendCount = 0
  /\ updateMutex = 0
  /\ nInv = 0
  /\ pc = [ h \in Invocations |-> "idle" ]
  /\ results = [ h \in Invocations |-> << >> ]
  /\ failed = [ h \in Invocations |-> {} ]
  /\ nFailed = 0
  /\ recvCount = [ h \in Invocations |-> 0 ]
  /\ idx = [ h \in Invocations |-> 0 ]
  /\ preGauges = << >>
  /\ gaugeVal = [ n \in TotalNames |-> 0 ]
  /\ gaugeVec = [ n \in VecNames |-> NoTuples ]
  /\ connected = {LocalNode}
  /\ known = {LocalNode}
  /\ published = {}
  /\ honoursOnlyAvailable \in BOOLEAN
  /\ nTrace = 0
  /\ tpc = [ t \in Traces |-> "idle" ]
  /\ tpayload = [ t \in Traces |-> << >> ]
  /\ counters = [ allReq |-> 0, req |-> NoTuples,
                  allDur |-> [count |-> 0, sum |-> 0], dur |-> NoTuples,
                  allErr |-> 0, err |-> NoTuples ]
  /\ nScrapes = 0
  /\ scraped = [ val |-> << >>, snapshots |-> {} ]

\* the state after PrometheusService() returned the schema
Init ==
  /\ ServiceInit
  /\ factoryIn = NoParams
  /\ factoryOut = NotBuilt

Next ==
  \/ CreateMetricsEnter
  \/ CreateMetricsStep
  \/ CreateMetricsNil
  \/ CreateMetricsFlag
  \/ Listen
  \/ \E n \in Nodes : NodeConnected(n)
  \/ \E n \in Nodes : NodeDisconnected(n)
  \/ \E s \in Services, n \in Nodes : ServiceAdded(s, n)
  \/ \E s \in Services, n \in Nodes : ServiceRemoved(s, n)
  \/ \E h \in Invocations : Lock(h)
  \/ \E h \in Invocations : CheckCreated(h)
  \/ \E h \in Invocations : GateReceive(h)
  \/ \E h \in Invocations, q \in Queries : SubQueryReturn(h, q)
  \/ \E h \in Invocations : MCallReturn(h)
  \/ \E h \in Invocations, q \in Queries : SetTotal(h, q)
  \/ \E h \in Invocations, q \in Queries : SetRecord(h, q)
  \/ \E h \in Invocations : Unlock(h)
  \/ \E e \in TracePayloads : TraceEvent(e)
  \/ \E t \in Traces : TraceStep(t)
  \/ \E t \in Traces : TracePanic(t)
  \/ \E e \in MalformedPayloads : TraceEvent(e)
  \/ \E t \in Traces : TraceReadPanic(t)
  \/ Scrape

Spec == Init /\ [][Next]_vars

\* the startup hook and the topology handler alone
TopologyNext ==
  \/ CreateMetricsEnter
  \/ CreateMetricsStep
  \/ CreateMetricsNil
  \/ CreateMetricsFlag
  \/ Listen
  \/ \E n \in Nodes : NodeConnected(n)
  \/ \E n \in Nodes : NodeDisconnected(n)
  \/ \E s \in Services, n \in Nodes : ServiceAdded(s, n)
  \/ \E s \in Services, n \in Nodes : ServiceRemoved(s, n)
  \/ \E h \in Invocations : Lock(h)
  \/ \E h \in Invocations : CheckCreated(h)
  \/ \E h \in Invocations : GateReceive(h)
  \/ \E h \in Invocations, q \in Queries : SubQueryReturn(h, q)
  \/ \E h \in Invocations : MCallReturn(h)
  \/ \E h \in Invocations, q \in Queries : SetTotal(h, q)
  \/ \E h \in Invocations, q \in Queries : SetRecord(h, q)
  \/ \E h \in Invocations : Unlock(h)

TopologySpec == Init /\ [][TopologyNext]_vars


\* the startup hook and the trace handler alone
TraceNext ==
  \/ CreateMetricsEnter
  \/ CreateMetricsStep
  \/ CreateMetricsNil
  \/ CreateMetricsFlag
  \/ Listen
  \/ \E e \in TracePayloads : TraceEvent(e)
  \/ \E t \in Traces : TraceStep(t)
  \/ \E t \in Traces : TracePanic(t)

TraceSpec == Init /\ [][TraceNext]_vars

\* the same, with events that lack the expected fields among the deliveries
MalformedTraceNext ==
  \/ TraceNext
  \/ \E e \in MalformedPayloads : TraceEvent(e)
  \/ \E t \in Traces : TraceReadPanic(t)

MalformedTraceSpec == Init /\ [][MalformedTraceNext]_vars

\* the startup hook and both handlers, under node-connected events
AggregatorsNext ==
  \/ CreateMetricsEnter
  \/ CreateMetricsStep
  \/ CreateMetricsNil
  \/ CreateMetricsFlag
  \/ Listen
  \/ \E n \in Nodes : NodeConnected(n)
  \/ \E h \in Invocations : Lock(h)
  \/ \E h \in Invocations : CheckCreated(h)
  \/ \E h \in Invocations : GateReceive(h)
  \/ \E h \in Invocations, q \in Queries : SubQueryReturn(h, q)
  \/ \E h \in Invocations : MCallReturn(h)
  \/ \E h \in Invocations, q \in Queries : SetTotal(h, q)
  \/ \E h \in Invocations, q \in Queries : SetRecord(h, q)
  \/ \E h \in Invocations : Unlock(h)
  \/ \E e \in TracePayloads : TraceEvent(e)
  \/ \E t \in Traces : TraceStep(t)
  \/ \E t \in Traces : TracePanic(t)

AggregatorsSpec == Init /\ [][AggregatorsNext]_vars

\* collectorFromType on its own, for every params map of FactoryInputs
FactoryInit ==
  /\ ServiceInit
  /\ factoryIn \in FactoryInputs
  /\ factoryOut = NotBuilt

FactoryNext == Build

FactorySpec == FactoryInit /\ [][FactoryNext]_vars

\* the startup hook, the topology handler and the exposition endpoint
ScrapeNext == TopologyNext \/ Scrape

ScrapeSpec == Init /\ [][ScrapeNext]_vars

\* the steps of the goroutine that runs Started
StartedStep ==
  \/ CreateMetricsEnter
  \/ CreateMetricsStep
  \/ CreateMetricsNil
  \/ CreateMetricsFlag
  \/ Listen

\* the steps of the goroutine that runs invocation h of updateCommonValues,
\* the answers of its fan-out included
HandlerStep(h) ==
  \/ Lock(h)
  \/ CheckCreated(h)
  \/ GateReceive(h)
  \/ \E q \in Queries : SubQueryReturn(h, q)
  \/ MCallReturn(h)
  \/ \E q \in Queries : SetTotal(h, q)
  \/ \E q \in Queries : SetRecord(h, q)
  \/ Unlock(h)

\* Scheduling: a goroutine that can take a step eventually takes it, a
\* fan-out sub-query eventually answers or times out. Nothing obliges the
\* cluster to emit events.
Fairness ==
  /\ WF_vars(StartedStep)
  /\ \A h \in Invocations : WF_vars(HandlerStep(h))

FairTopologySpec == Init /\ [][TopologyNext]_vars /\ Fairness

\* the startup hook and the topology handler in a cluster where nodes come
\* and go and no service is published
NodeChurnNext ==
  \/ CreateMetricsEnter
  \/ CreateMetricsStep
  \/ CreateMetricsNil
  \/ CreateMetricsFlag
  \/ Listen
  \/ \E n \in Nodes : NodeConnected(n)
  \/ \E n \in Nodes : NodeDisconnected(n)
  \/ \E h \in Invocations : Lock(h)
  \/ \E h \in Invocations : CheckCreated(h)
  \/ \E h \in Invocations : GateReceive(h)
  \/ \E h \in Invocations, q \in Queries : SubQueryReturn(h, q)
  \/ \E h \in Invocations : MCallReturn(h)
  \/ \E h \in Invocations, q \in Queries : SetTotal(h, q)
  \/ \E h \in Invocations, q \in Queries : SetRecord(h, q)
  \/ \E h \in Invocations : Unlock(h)

NodeChurnSpec == Init /\ [][NodeChurnNext]_vars

FairNodeChurnSpec == Init /\ [][NodeChurnNext]_vars /\ Fairness

(* ------------------------------ properties ----------------------------- *)

\* invocation h of updateCommonValues is past the gate (lines 115-119)
PastGate(h) == pc[h] \in {"gather", "unlock", "done"} \cup WritePcs

\* C1: no invocation of updateCommonValues gets past the gate, and so none
\* looks up or sets a collector, before createMetrics has inserted and
\* registered every configured collector; until then every started
\* invocation is waiting for the mutex or at the gate.
C1_GateBeforeLookup ==
  \A h \in Invocations : PastGate(h) => RegistryComplete

\* an invocation that blocked at the gate, was released and set all gauges
C1_Witness ==
  \E h \in Invocations : recvCount[h] = 1 /\ pc[h] = "unlock"

\* C2: no invocation of traceSpanFinished looks up or updates a collector
\* before createMetrics has populated the whole registry.
C2_TraceWaitsForRegistry ==
  \A t \in Traces :
    tpc[t] \in (TracePcs \ {"allReq"}) \cup {"done", "panicked"} => RegistryComplete

\* C3: the completion signal is sent at most once, only once every
\* configured collector is inserted and registered, and no invocation
\* receives it more than once.
C3_SignalOnce ==
  /\ sendCount <= 1
  /\ sendCount >= 1 => RegistryComplete
  /\ \A h \in Invocations : recvCount[h] <= 1

\* the signal has been sent and an invocation has received it
C3_Witness ==
  sendCount = 1 /\ \E h \in Invocations : recvCount[h] = 1

\* C4: with valid settings the startup hook eventually returns from
\* createMetrics and serves the exposition endpoint.
C4_StartupServes ==
  (settings = "valid") => <>(startPc = "serving")

\* C5: with valid settings every invocation of updateCommonValues that has
\* been triggered eventually passes the gate, sets its gauges and returns.
C5_InvocationsComplete ==
  \A h \in Invocations :
    (settings = "valid" /\ pc[h] = "lock") ~> (pc[h] = "done")

\* every invocation has returned, one of them after blocking at the gate
C5_Witness ==
  /\ \A h \in Invocations : pc[h] = "done"
  /\ \E h \in Invocations : recvCount[h] = 1

\* invocation h has started its fan-out and not finished setting gauges
InUpdate(h) == pc[h] \in {"gather"} \cup WritePcs

\* C6: no two invocations of updateCommonValues are at once between the
\* start of the fan-out and the last gauge Set.
C6_MutualExclusion ==
  \A h1, h2 \in Invocations : (h1 # h2 /\ InUpdate(h1)) => ~InUpdate(h2)

\* one invocation is setting gauges while another waits for the mutex
C6_Witness ==
  \E h1, h2 \in Invocations : pc[h1] \in WritePcs /\ pc[h2] = "lock"

\* C7: an invocation sets its first gauge, and every later one, only when
\* all four sub-query results of its fan-out are in.
C7_GatherBarrier ==
  \A h \in Invocations :
    pc[h] \in WritePcs \cup {"unlock"} => DOMAIN results[h] = Queries

\* an invocation has set the node gauges and goes on with the services
C7_Witness ==
  \E h \in Invocations : pc[h] = "servicesTotal" /\ Len(Res(h, "nodes")) > 0

\* C8: when an invocation has set its last gauge, the four totals are the
\* lengths of the four gathered lists, each node record's tuple of
\* moleculer_nodes is 1 if the record is available, else 0, and each
\* service, action and event record's tuple is the record's endpoint count.
C8_SnapshotApplied ==
  \A h \in Invocations : pc[h] = "unlock" =>
    LET S == results[h]
    IN /\ gaugeVal["moleculer_nodes_total"] = Len(S.nodes)
       /\ gaugeVal["moleculer_services_total"] = Len(S.services)
       /\ gaugeVal["moleculer_actions_total"] = Len(S.actions)
       /\ gaugeVal["moleculer_events_total"] = Len(S.events)
       /\ \A i \in 1..Len(S.nodes) :
            LET r == S.nodes[i]
                t == << r.id, r.client.type, r.client.version, r.client.langVersion >>
            IN /\ t \in DOMAIN gaugeVec["moleculer_nodes"]
               /\ gaugeVec["moleculer_nodes"][t] = (IF r.available THEN 1 ELSE 0)
       /\ \A i \in 1..Len(S.services) :
            LET r == S.services[i]
                t == << r.name, r.version >>
            IN /\ t \in DOMAIN gaugeVec["moleculer_service_endpoints_total"]
               /\ gaugeVec["moleculer_service_endpoints_total"][t] = Len(r.endpoints)
       /\ \A i \in 1..Len(S.actions) :
            LET r == S.actions[i]
                t == << r.name >>
            IN /\ t \in DOMAIN gaugeVec["moleculer_action_endpoints_total"]
               /\ gaugeVec["moleculer_action_endpoints_total"][t] = Len(r.endpoints)
       /\ \A i \in 1..Len(S.events) :
            LET r == S.events[i]
                t == << r.name, r.group >>
            IN /\ t \in DOMAIN gaugeVec["moleculer_event_endpoints_total"]
               /\ gaugeVec["moleculer_event_endpoints_total"][t] = Len(r.endpoints)

\* an invocation applied a snapshot of two node records, one of them
\* unreachable
C8_Witness ==
  \E h \in Invocations :
    /\ pc[h] = "unlock"
    /\ failed[h] = {}
    /\ Len(Res(h, "nodes")) = 2
    /\ \E i \in 1..Len(Res(h, "nodes")) : ~Res(h, "nodes")[i].available

\* C9: an invocation of which a sub-query failed or timed out applies no
\* gauge update: every scalar and labelled gauge keeps the value it had
\* before the invocation.
C9_FailureLeavesGauges ==
  \A h \in Invocations :
    (failed[h] # {} /\ pc[h] \in WritePcs \cup {"unlock"}) =>
      (gaugeVal = preGauges.val /\ gaugeVec = preGauges.vec)

\* C10: the scalar gauges a scrape returns all stem from one snapshot:
\* the one last applied or the one being applied, never a mix.
C10_ScrapeConsistent ==
  (nScrapes > 0 /\ DOMAIN scraped.val = TotalNames) =>
    TotalsOf(scraped.val) \in scraped.snapshots

\* every delivered topology event has been handled to the end
TopologyQuiet ==
  nInv >= 1 /\ \A h \in Invocations : pc[h] \in {"idle", "done"}

\* the numbers of nodes, services, actions and event subscriptions the
\* registry lists right now
CurrentTotals ==
  << Len(NodeList), Len(ServiceList), Len(ActionList), Len(EventList) >>

\* C11: once every triggered invocation of updateCommonValues has
\* completed, the four total gauges equal the current numbers of nodes,
\* services, actions and event subscriptions of the cluster.
C11_TotalsResync ==
  TopologyQuiet => TotalsOf(gaugeVal) = CurrentTotals

\* the for loop over list from record i on: With(labels).Set(value) each
RECURSIVE SetRecords(_, _, _, _)
SetRecords(vec, q, list, i) ==
  IF i > Len(list)
    THEN vec
    ELSE SetRecords(SetTuple(vec, RecordLabels(q, list[i]), RecordValue(q, list[i])),
                    q, list, i + 1)

\* the gauges after lines 154-216 ran on snapshot S, started from gauges g
ApplySnapshot(S, g) ==
  [ val |-> [ n \in TotalNames |->
                Len(S[CHOOSE q \in Queries : TotalGauge(q) = n]) ],
    vec |-> [ n \in VecNames |->
                LET q == CHOOSE x \in Queries : VecGauge(x) = n
                IN SetRecords(g.vec[n], q, S[q], 1) ] ]

\* the scalar and the labelled gauges as one value
Gauges == [ val |-> gaugeVal, vec |-> gaugeVec ]

\* C12: the topology update is idempotent: when an invocation has set its
\* last gauge (the gauges are then those of lines 154-216 applied to the
\* values before it), applying the same gathered snapshot a second time
\* leaves every total and every label tuple as it is.
C12_UpdateIdempotent ==
  \A h \in Invocations : pc[h] = "unlock" =>
    /\ Gauges = ApplySnapshot(results[h], preGauges)
    /\ ApplySnapshot(results[h], Gauges) = Gauges

\* an invocation applied a snapshot of two nodes and one service
C12_Witness ==
  \E h \in Invocations :
    /\ pc[h] = "unlock"
    /\ Len(Res(h, "nodes")) = 2
    /\ Len(Res(h, "services")) = 1

\* invocation h is in the for loop of family n, at the record of tuple t
SettingTuple(h, n, t) ==
  /\ pc[h] \in Queries
  /\ VecGauge(pc[h]) = n
  /\ RecordLabels(pc[h], Res(h, pc[h])[idx[h]]) = t

\* C13: no step removes a label tuple from a gauge family, and a tuple's
\* value changes only when an invocation sets it for a record of its
\* gathered snapshot: the tuple of an entity that has left the snapshot
\* keeps the value last set for it.
C13_TuplesKept ==
  [][ \A n \in VecNames : \A t \in DOMAIN gaugeVec[n] :
        /\ t \in DOMAIN gaugeVec'[n]
        /\ gaugeVec'[n][t] # gaugeVec[n][t] =>
             \E h \in Invocations : SettingTuple(h, n, t) ]_vars

\* node n2 has left the node list: the total is back to 1 and the tuple
\* of n2 still reports 1
C13_Witness ==
  /\ TopologyQuiet
  /\ gaugeVal["moleculer_nodes_total"] = 1
  /\ \E t \in DOMAIN gaugeVec["moleculer_nodes"] :
       t[1] = "n2" /\ gaugeVec["moleculer_nodes"][t] = 1

\* the trace events delivered so far, by handler
Delivered == { t \in Traces : tpc[t] # "idle" }

\* no invocation of traceSpanFinished is in progress
TraceQuiet == \A t \in Traces : tpc[t] \in {"idle", "done", "panicked"}

\* the value a labelled counter reports for a tuple (absent: nothing counted)
CountOf(vec, labels) == IF labels \in DOMAIN vec THEN vec[labels] ELSE 0

\* sum of the durations of the events of the handlers in T
RECURSIVE DurationSum(_)
DurationSum(T) ==
  IF T = {} THEN 0
  ELSE LET t == CHOOSE x \in T : TRUE
       IN tpayload[t].duration + DurationSum(T \ {t})

\* the histogram that has seen exactly the events of the handlers in T
HistogramOf(T) == [ count |-> Cardinality(T), sum |-> DurationSum(T) ]

\* the request counters and the histograms have counted every delivered
\* event once, each under its own (action, service, nodeID) tuple
RequestsCounted ==
  /\ counters.allReq = Cardinality(Delivered)
  /\ counters.allDur = HistogramOf(Delivered)
  /\ \A e \in TracePayloads :
       LET T == { t \in Delivered : ReqLabels(tpayload[t]) = ReqLabels(e) }
       IN /\ CountOf(counters.req, ReqLabels(e)) = Cardinality(T)
          /\ T # {} => /\ ReqLabels(e) \in DOMAIN counters.dur
                       /\ counters.dur[ReqLabels(e)] = HistogramOf(T)
  /\ \A L \in DOMAIN counters.req : \E e \in TracePayloads : L = ReqLabels(e)
  /\ \A L \in DOMAIN counters.dur : \E e \in TracePayloads : L = ReqLabels(e)

\* C14: each trace event without an error descriptor adds exactly 1 to
\* moleculer_all_req_total and to moleculer_req_total of its tuple and one
\* observation of its duration to both histograms, and nothing else: when
\* only such events were delivered and none is in progress, the request
\* counters and histograms have counted each once and both error counters
\* are untouched.
C14_CleanEventCounted ==
  (TraceQuiet /\ \A t \in Delivered : ~tpayload[t].hasError) =>
    /\ RequestsCounted
    /\ counters.allErr = 0
    /\ counters.err = NoTuples

\* the delivered events that carry an error descriptor, by handler
DeliveredErrors == { t \in Delivered : tpayload[t].hasError }

\* C15: a trace event that carries an error descriptor adds 1 to
\* moleculer_all_req_errors_total and to moleculer_req_errors_total of its
\* (action, service, nodeID, errorMessage) tuple, and the request counters
\* and histograms count it as they count a successful event: when only
\* such events were delivered and none is in progress, all six collectors
\* have counted each once.
C15_ErrorEventCounted ==
  (TraceQuiet /\ DeliveredErrors = Delivered) =>
    /\ RequestsCounted
    /\ counters.allErr = Cardinality(Delivered)
    /\ \A e \in TracePayloads :
         CountOf(counters.err, ErrLabels(e)) =
           Cardinality({ t \in Delivered : ErrLabels(tpayload[t]) = ErrLabels(e) })
    /\ \A L \in DOMAIN counters.err : \E e \in TracePayloads : L = ErrLabels(e)

\* C16: no counter update is lost under concurrency: when every one of the
\* MaxTraces concurrent handlers has processed its event to the end, all
\* for the same (action, service, nodeID) tuple, moleculer_all_req_total
\* and moleculer_req_total of that tuple have each grown by MaxTraces.
C16_NoLostUpdate ==
  \A e \in TracePayloads :
    (\A t \in Traces : tpc[t] = "done" /\ tpayload[t] = e) =>
      /\ counters.allReq = MaxTraces
      /\ CountOf(counters.req, ReqLabels(e)) = MaxTraces

\* all handlers ran to the end on events of the same tuple, and at least
\* two of them
C16_Witness ==
  /\ MaxTraces >= 2
  /\ \E e \in TracePayloads :
       \A t \in Traces : tpc[t] = "done" /\ tpayload[t] = e

\* sum of the values of all label tuples of a labelled counter
RECURSIVE VecSum(_)
VecSum(vec) ==
  IF DOMAIN vec = {} THEN 0
  ELSE LET L == CHOOSE x \in DOMAIN vec : TRUE
       IN vec[L] + VecSum([ x \in DOMAIN vec \ {L} |-> vec[x] ])

\* C17: whenever no trace handler is in progress, moleculer_all_req_total
\* equals the observation count of moleculer_all_req_duration_ms, the sum
\* of moleculer_req_total over its tuples and the number of events
\* handled, and moleculer_all_req_errors_total equals the sum of
\* moleculer_req_errors_total over its tuples and the number of handled
\* events that carried an error.
C17_RollupsAgree ==
  TraceQuiet =>
    /\ counters.allReq = counters.allDur.count
    /\ counters.allReq = VecSum(counters.req)
    /\ counters.allReq = Cardinality(Delivered)
    /\ counters.allErr = VecSum(counters.err)
    /\ counters.allErr = Cardinality(DeliveredErrors)

\* C18: when the metrics entry of the settings is missing or is no
\* name-to-spec mapping, the startup hook does not go on to serve the
\* exposition endpoint.
C18_StartupFailsHard ==
  settings \in {"missing", "mistyped"} => startPc # "serving"

\* C19: for a metric spec whose type is not Gauge, Counter or Histogram
\* nothing is added under its name: no entry in the registry map and no
\* registration with the exposition handler.
C19_UnknownTypeAddsNothing ==
  \A name \in MetricNames :
    collectorFromType(MetricsOf(settings)[name]) = "nil" =>
      name \notin DOMAIN collectors /\ name \notin registered

\* createMetrics has left its range loop (it is at the send or has returned)
CreateMetricsDone == startPc \in {"send", "listen", "serving"}

\* C20: with the valid metric specs, once createMetrics has completed the
\* registry map holds a collector of the configured kind for every
\* configured name and has no entry for any other name.
C20_RegistryExact ==
  (settings = "valid" /\ CreateMetricsDone) =>
    /\ DOMAIN collectors = MetricNames
    /\ \A name \in MetricNames :
         /\ Found(name)
         /\ collectors[name] = collectorFromType(Metrics[name])

\* createMetrics has returned and the endpoint is served
C20_Witness ==
  settings = "valid" /\ startPc = "serving" /\ Found("moleculer_req_duration_ms")

\* the trace counters and histograms before any event
NothingCounted ==
  [ allReq |-> 0, req |-> NoTuples, allDur |-> [count |-> 0, sum |-> 0],
    dur |-> NoTuples, allErr |-> 0, err |-> NoTuples ]

\* C21: a trace event that lacks the expected fields is skipped: when only
\* such events were delivered and their handlers have returned, no counter
\* and no histogram has changed.
C21_MalformedSkipped ==
  (/\ Delivered # {}
   /\ \A t \in Delivered : tpayload[t] \in MalformedPayloads /\ tpc[t] = "done") =>
    counters = NothingCounted

\* C22: collectorFromType returns the label-partitioned variant of the
\* requested kind exactly when labelNames is non-empty, the scalar variant
\* when it is absent or empty; a histogram gets the spec's buckets when
\* they are present and the default buckets when they are absent.
C22_VariantByLabelNames ==
  factoryOut.kind \notin {"none", "nil"} =>
    /\ factoryOut.kind \in VecKinds <=>
         (factoryIn.labelNames.present /\ Len(factoryIn.labelNames.value) > 0)
    /\ factoryIn.type = "Histogram" => factoryOut.buckets = factoryIn.buckets

\* C23: once createMetrics has set the flag it sends as completion signal,
\* the registry map never changes again (no entry added, removed or
\* rebound, no registration added), and every step that changes the map is
\* a step of createMetrics' loop, never one of a handler.
C23_RegistryFrozen ==
  [][ /\ metricsCreated => (collectors' = collectors /\ registered' = registered)
      /\ (collectors' # collectors \/ registered' # registered) =>
           (startPc = "range" /\ pc' = pc /\ tpc' = tpc) ]_vars

\* the signal was sent and taken, and a topology handler ran to its end
\* on the complete registry
C23_Witness ==
  /\ sendCount = 1
  /\ RegistryComplete
  /\ \E h \in Invocations : pc[h] = "done"

\* invocation h holds sub-query results it has gathered and not yet
\* finished applying
HoldsSnapshot(h) == DOMAIN results[h] # {}

\* C24: snapshots are applied to the gauges in the order in which they
\* were gathered: every step that changes a gauge is made by an invocation
\* whose gather is complete while no other invocation holds a gathered
\* result, so no snapshot gathered earlier waits to overwrite it and none
\* gathered later has been applied before it.
C24_AppliedInGatherOrder ==
  [][ (gaugeVal' # gaugeVal \/ gaugeVec' # gaugeVec) =>
        \E h \in Invocations :
          /\ pc[h] \in WritePcs
          /\ GatherComplete(h)
          /\ \A h2 \in Invocations \ {h} : ~HoldsSnapshot(h2) ]_vars

\* an invocation has applied its snapshot after another one returned and
\* a third event may be waiting: the gauges hold the one gathered last
C24_Witness ==
  \E h1, h2 \in Invocations :
    /\ pc[h1] = "done"
    /\ pc[h2] = "unlock"
    /\ TotalsOf(gaugeVal) = SnapshotTotals(h2)
    /\ Len(Res(h2, "nodes")) = 2

\* sum of the observation counts of all label tuples of a labelled histogram
RECURSIVE CountSum(_)
CountSum(vec) ==
  IF DOMAIN vec = {} THEN 0
  ELSE LET L == CHOOSE x \in DOMAIN vec : TRUE
       IN vec[L].count + CountSum([ x \in DOMAIN vec \ {L} |-> vec[x] ])

\* C25: at every reachable state, also while trace handlers are in
\* progress, moleculer_all_req_total >= the sum of moleculer_req_total >=
\* the count of moleculer_all_req_duration_ms >= the sum of the counts of
\* moleculer_req_duration_ms >= moleculer_all_req_errors_total >= the sum
\* of moleculer_req_errors_total.
C25_UpdateOrder ==
  /\ counters.allReq >= VecSum(counters.req)
  /\ VecSum(counters.req) >= counters.allDur.count
  /\ counters.allDur.count >= CountSum(counters.dur)
  /\ CountSum(counters.dur) >= counters.allErr
  /\ counters.allErr >= VecSum(counters.err)

\* one handler is between its two request counters while another has
\* counted an error event to the end
C25_Witness ==
  \E t1, t2 \in Traces :
    /\ tpc[t1] = "req"
    /\ tpc[t2] = "done"
    /\ tpayload[t2].hasError
    /\ counters.allReq = 2
    /\ VecSum(counters.err) = 1

\* C26: when createMetrics returns early on a missing or mistyped metrics
\* entry the gate is never signalled: at every state no value has been
\* sent, every started invocation of updateCommonValues is waiting for the
\* mutex or, holding it, stands at the gate, and no gauge has been set.
C26_EarlyReturnStalls ==
  settings \in {"missing", "mistyped"} =>
    /\ sendCount = 0
    /\ ~metricsCreated
    /\ \A h \in Invocations :
         /\ pc[h] \in {"idle", "lock", "check", "wait"}
         /\ pc[h] \in {"check", "wait"} => updateMutex = h
    /\ gaugeVal = [ n \in TotalNames |-> 0 ]
    /\ gaugeVec = [ n \in VecNames |-> NoTuples ]

\* createMetrics returned early and the endpoint is served; the first
\* invocation stands at the gate, a later one waits for the mutex
C26_Witness ==
  /\ settings = "missing"
  /\ startPc = "serving"
  /\ \E h1, h2 \in Invocations : pc[h1] = "wait" /\ pc[h2] = "lock"

\* updateMutex is held by invocation h from Lock to the deferred Unlock
HoldsMutex(h) ==
  pc[h] \in {"check", "wait", "gather", "unlock"} \cup WritePcs

C28_DisjointWrites ==
  [][ /\ tpc' # tpc => (gaugeVal' = gaugeVal /\ gaugeVec' = gaugeVec)
      /\ (pc' # pc \/ idx' # idx \/ results' # results) =>
           counters' = counters ]_vars

\* both handlers are part-way through an invocation, after a request has
\* been counted and a gauge has been set
C28_Witness ==
  /\ counters.allReq > 0
  /\ gaugeVal["moleculer_nodes_total"] > 0
  /\ \E h \in Invocations : pc[h] \in WritePcs
  /\ \E t \in Traces : tpc[t] \in TracePcs

\* C29: when $node.list honours onlyAvailable, every label tuple of the
\* moleculer_nodes gauge has the value 1 after every step and none is
\* removed: the tuple of a node that disconnected keeps reporting 1, while
\* moleculer_nodes_total no longer counts the node.
C29_NodesOnlyOne ==
  [][ honoursOnlyAvailable =>
        /\ \A t \in DOMAIN gaugeVec["moleculer_nodes"] :
             t \in DOMAIN gaugeVec'["moleculer_nodes"]
        /\ \A t \in DOMAIN gaugeVec'["moleculer_nodes"] :
             gaugeVec'["moleculer_nodes"][t] = 1 ]_vars

\* the query honours the filter, n2 has disconnected and an invocation has
\* run since: the total counts one node, the tuple of n2 still reports 1
C29_Witness ==
  /\ honoursOnlyAvailable
  /\ "n2" \notin connected
  /\ \A h \in Invocations : pc[h] = "done"
  /\ nFailed = 0
  /\ gaugeVal["moleculer_nodes_total"] = 1
  /\ \E t \in DOMAIN gaugeVec["moleculer_nodes"] :
       t[1] = "n2" /\ gaugeVec["moleculer_nodes"][t] = 1

====
